---- MODULE Spec2Model ----
(***************************************************************************)
(* A model of KinDA's System class (kinda/kinda.py) and of the report      *)
(* writer write_pil (kinda/output.py).                                      *)
(*                                                                         *)
(* Entities (complexes, resting sets, detailed reactions, condensed        *)
(* reactions) are identified by strings; their attributes are given by     *)
(* lookup tables.  Python lists handed to set(...) are modelled as sets.   *)
(* Python dicts are modelled as functions whose domain is the key set.     *)
(***************************************************************************)
EXTENDS Integers, Sequences, FiniteSets, TLC

VARIABLES pc, given, sys, hist, sys2, ret

vars == <<pc, given, sys, hist, sys2, ret>>

(***************************************************************************)
(* Bounds of the model.                                                    *)
(***************************************************************************)
\* total number of entities the caller hands to System(...)
MaxGiven == 2
\* number of entities make_stats discovers beyond the ones it is given
MaxSpurious == 1

(***************************************************************************)
(* The universe of entity objects.                                         *)
(***************************************************************************)
\* Python's None, and a value that is not None
None == <<>>
Some(x) == <<x>>

Complexes == {"c1", "c2", "c3", "c4"}
RestingSets == {"R1", "R2", "R3"}
DetailedReactions == {"D1", "D2"}
CondensedReactions == {"X1", "X2", "X3", "X4", "X5"}

\* RestingSet.complexes
RSComplexes(rs) ==
  CASE rs = "R1" -> {"c1"}
    [] rs = "R2" -> {"c2", "c3"}
    [] rs = "R3" -> {"c4"}

\* RestingSet.strands
RSStrands(rs) ==
  CASE rs = "R1" -> {"s1"}
    [] rs = "R2" -> {"s1", "s2"}
    [] rs = "R3" -> {"s2", "s3"}

\* .name of a complex or a resting set (R2 and R3 share a name)
NameOf(e) ==
  CASE e = "R1" -> "A"
    [] e = "R2" -> "B"
    [] e = "R3" -> "B"
    [] e = "c1" -> "cA"
    [] e = "c2" -> "cB"
    [] e = "c3" -> "cB"
    [] e = "c4" -> "cA"

\* Reaction.reactants (a Python list)
Reactants(rxn) ==
  CASE rxn = "D1" -> <<"c2">>
    [] rxn = "D2" -> <<"c1", "c1">>
    [] rxn = "X1" -> <<"R1", "R1">>
    [] rxn = "X2" -> <<"R1", "R2">>
    [] rxn = "X3" -> <<"R2">>
    [] rxn = "X4" -> <<"R1", "R2">>
    [] rxn = "X5" -> <<"R1", "R1", "R2">>

\* Reaction.products (a Python list)
Products(rxn) ==
  CASE rxn = "D1" -> <<"c3">>
    [] rxn = "D2" -> <<"c2">>
    [] rxn = "X1" -> <<"R2">>
    [] rxn = "X2" -> <<"R2", "R1">>
    [] rxn = "X3" -> <<"R1", "R1">>
    [] rxn = "X4" -> <<"R3">>
    [] rxn = "X5" -> <<"R3">>

Range(s) == {s[i] : i \in DOMAIN s}

\* the elements of rxn.reactants+rxn.products
Participants(rxn) == Range(Reactants(rxn) \o Products(rxn))

\* Reaction.has_reactants / has_products: every given element appears among them
has_reactants(rxn, xs) == \A i \in DOMAIN xs : xs[i] \in Range(Reactants(rxn))
has_products(rxn, xs) == \A i \in DOMAIN xs : xs[i] \in Range(Products(rxn))

(***************************************************************************)
(* Parameter dictionaries.                                                 *)
(***************************************************************************)
\* options.kinda_params etc.: the module-level defaults
OptionsKindaParams ==
  [k \in {"enable_unimolecular_reactions"} |->
     FALSE]
OptionsPeppercornParams == [k \in {"max_complex_size"} |-> 6]
OptionsMultistrandParams == [k \in {"sodium"} |-> 1]
OptionsNupackParams == [k \in {"T"} |-> 25]

\* dict(d1, **d2)
DictMerge(d1, d2) ==
  [k \in (DOMAIN d1) \cup (DOMAIN d2) |-> IF k \in DOMAIN d2 THEN d2[k] ELSE d1[k]]

\* d.get(k, default)
DictGet(d, k, default) == IF k \in DOMAIN d THEN d[k] ELSE default

\* the fallback of kinda_params.get('max_concentration', 1e-7), in nM
DefaultCMax == 100

EmptyDict == [k \in {} |-> 0]

(***************************************************************************)
(* System.__init__                                                         *)
(***************************************************************************)
\* the resting sets stored from the arguments
GivenRestingSets(restingsets, condensed_reactions) ==
  restingsets \cup UNION {Participants(rxn) : rxn \in condensed_reactions}

\* the complexes stored from the arguments
\* variant for C2: the complexes of resting sets and reactions are not added
GivenComplexesAsGiven(complexes, restingsets, detailed_reactions) == complexes

GivenComplexes(complexes, restingsets, detailed_reactions) ==
  complexes
    \cup UNION {RSComplexes(rs) : rs \in restingsets}
    \cup UNION {Participants(rxn) : rxn \in detailed_reactions}

\* "Store given data": the four working sets before enumeration
StoreGiven(args) ==
  LET rs == GivenRestingSets(args.restingsets, args.condensed_reactions)
  IN  [complexes |-> GivenComplexes(args.complexes, rs, args.detailed_reactions),
       restingsets |-> rs,
       detailed_reactions |-> args.detailed_reactions,
       condensed_reactions |-> args.condensed_reactions]

\* A network the enumerator may return: reactions, the resting sets they
\* involve plus others, and the complexes of all of these.
EnumNetwork(rs, dr, cr) ==
  LET allrs == rs \cup UNION {Participants(rxn) : rxn \in cr}
  IN  [complexes |-> UNION {RSComplexes(r) : r \in allrs}
                       \cup UNION {Participants(rxn) : rxn \in dr},
       restingsets |-> allrs,
       reactions |-> dr,
       restingset_reactions |-> cr]

\* EnumerateJob(complexes, reactions, peppercorn_params): its possible results
EnumerateJob(complexes, reactions) ==
  { EnumNetwork({}, {}, {}),
    EnumNetwork({"R1"}, {}, {}),
    EnumNetwork({}, {"D1"}, {"X1"}),
    EnumNetwork({}, {"D1", "D2"}, {"X1", "X3"}),
    EnumNetwork({"R3"}, {}, {"X2", "X3"}),
    EnumNetwork({}, {"D2"}, {"X1", "X2", "X4", "X5"}) }

NoEnumJob == [complexes |-> {}, restingsets |-> {}, reactions |-> {},
              restingset_reactions |-> {}]

\* "Incorporate enumerated data": the working sets after the enumeration branch
\* variant for C3: the enumerated data are added to the stored data
IncorporateUnion(stored, enumeration, job) ==
  IF enumeration
    THEN [complexes |-> stored.complexes \cup job.complexes,
          restingsets |-> stored.restingsets \cup job.restingsets,
          detailed_reactions |-> stored.detailed_reactions \cup job.reactions,
          condensed_reactions |-> stored.condensed_reactions \cup job.restingset_reactions]
    ELSE stored

Incorporate(stored, enumeration, job) ==
  IF enumeration
    THEN [complexes |-> job.complexes,
          restingsets |-> job.restingsets,
          detailed_reactions |-> job.reactions,
          condensed_reactions |-> job.restingset_reactions]
    ELSE stored

\* "Filter out unimolecular reactions, if these are disabled."
\* variant for C4: only reactions with more than two reactants are dropped
UnimolecularFilterAtMostTwo(kinda_params, condensed_reactions) ==
  IF ~kinda_params["enable_unimolecular_reactions"]
    THEN {rxn \in condensed_reactions : Len(Reactants(rxn)) <= 2}
    ELSE condensed_reactions

UnimolecularFilter(kinda_params, condensed_reactions) ==
  IF ~kinda_params["enable_unimolecular_reactions"]
    THEN {rxn \in condensed_reactions : Len(Reactants(rxn)) = 2}
    ELSE condensed_reactions

\* a fresh statistics record for an entity; c_max 0 is "not yet set"
StatsRecord(e) == [of |-> e, c_max |-> 0]

\* stats_utils.make_stats: records for everything it is given, for the
\* reactions it discovers (xrxn) and for every resting set these involve,
\* and for the resting sets it discovers (xrs)
make_stats(complexes, restingsets, detailed_reactions, condensed_reactions, xrs, xrxn) ==
  LET rxns == condensed_reactions \cup xrxn
      rss  == restingsets \cup xrs \cup UNION {Participants(rxn) : rxn \in rxns}
  IN  [rs_to_stats |-> [rs \in rss |-> StatsRecord(rs)],
       rxn_to_stats |-> [rxn \in rxns |-> StatsRecord(rxn)]]

\* "Pull out spurious reactions/resting sets"
\* variant for C1: the known entities are not subtracted
SpuriousAllKeys(to_stats, known) == DOMAIN to_stats

Spurious(to_stats, known) == (DOMAIN to_stats) \ known

\* "Set default max concentration for each resting set"
SetCMax(rs_to_stats, kinda_params) ==
  [rs \in DOMAIN rs_to_stats |->
     [rs_to_stats[rs] EXCEPT !.c_max = DictGet(kinda_params, "max_concentration", DefaultCMax)]]

\* the working sets before the unimolecular filter
PreFilter(args, job) == Incorporate(StoreGiven(args), args.enumeration, job)

\* the object System.__init__ leaves behind
System(args, job, xrs, xrxn) ==
  LET kp    == DictMerge(OptionsKindaParams, args.kinda_params)
      w     == PreFilter(args, job)
      cr    == UnimolecularFilter(kp, w.condensed_reactions)
      stats == make_stats(w.complexes, w.restingsets, w.detailed_reactions, cr, xrs, xrxn)
  IN  [kinda_params |-> kp,
       peppercorn_params |-> DictMerge(OptionsPeppercornParams, args.peppercorn_params),
       multistrand_params |-> DictMerge(OptionsMultistrandParams, args.multistrand_params),
       nupack_params |-> DictMerge(OptionsNupackParams, args.nupack_params),
       complexes |-> w.complexes,
       restingsets |-> w.restingsets,
       detailed_reactions |-> w.detailed_reactions,
       condensed_reactions |-> cr,
       enum_job |-> IF args.enumeration THEN job ELSE NoEnumJob,
       rs_to_stats |-> SetCMax(stats.rs_to_stats, kp),
       rxn_to_stats |-> stats.rxn_to_stats,
       spurious_restingsets |-> Spurious(stats.rs_to_stats, w.restingsets),
       spurious_condensed_reactions |-> Spurious(stats.rxn_to_stats, cr)]

(***************************************************************************)
(* The arguments a caller may pass, and what make_stats may discover.      *)
(***************************************************************************)
KindaParamChoices ==
  { EmptyDict,
    [k \in {"enable_unimolecular_reactions", "max_concentration"} |->
       IF k = "max_concentration" THEN 20 ELSE TRUE] }

Args ==
  { [complexes |-> c, restingsets |-> rs, detailed_reactions |-> dr,
     condensed_reactions |-> cr, enumeration |-> en, kinda_params |-> kp,
     peppercorn_params |-> EmptyDict, multistrand_params |-> EmptyDict,
     nupack_params |-> EmptyDict] :
      c \in SUBSET Complexes, rs \in SUBSET RestingSets,
      dr \in SUBSET DetailedReactions, cr \in SUBSET CondensedReactions,
      en \in BOOLEAN, kp \in KindaParamChoices }

BoundedArgs ==
  { a \in Args : Cardinality(a.complexes) + Cardinality(a.restingsets)
                   + Cardinality(a.detailed_reactions)
                   + Cardinality(a.condensed_reactions) <= MaxGiven }

\* the pairs (resting sets, reactions) make_stats may discover
Discoveries ==
  { d \in (SUBSET RestingSets) \X (SUBSET CondensedReactions) :
      Cardinality(d[1]) + Cardinality(d[2]) <= MaxSpurious }

NoArgs == [complexes |-> {}, restingsets |-> {}, detailed_reactions |-> {},
           condensed_reactions |-> {}, enumeration |-> FALSE, kinda_params |-> EmptyDict,
           peppercorn_params |-> EmptyDict, multistrand_params |-> EmptyDict,
           nupack_params |-> EmptyDict]

NoSystem == System(NoArgs, NoEnumJob, {}, {})

NoHist == [prefilter |-> PreFilter(NoArgs, NoEnumJob), job |-> NoEnumJob,
           xrs |-> {}, xrxn |-> {}]

NoRet == [op |-> "none"]

(***************************************************************************)
(* The property accessors (kinda.py 134-152).                              *)
(***************************************************************************)
complexes(s) == s.complexes
\* variant for C6: the property leaves out the spurious resting sets
restingsetsKnownOnly(s) == s.restingsets

restingsets(s) == s.restingsets \cup s.spurious_restingsets
detailed_reactions(s) == s.detailed_reactions
condensed_reactions(s) == s.condensed_reactions \cup s.spurious_condensed_reactions

(***************************************************************************)
(* Construction, and the rebuild of a registry from its own collections.   *)
(***************************************************************************)
Init ==
  /\ pc = "new"
  /\ given = NoArgs
  /\ sys = NoSystem
  /\ hist = NoHist
  /\ sys2 = NoSystem
  /\ ret = NoRet

\* System(complexes, restingsets, ..., enumeration, kinda_params, ...)
SystemInit ==
  /\ pc = "new"
  /\ \E args \in BoundedArgs :
       \E job \in (IF args.enumeration
                     THEN EnumerateJob(StoreGiven(args).complexes,
                                       StoreGiven(args).detailed_reactions)
                     ELSE {NoEnumJob}) :
         \E d \in Discoveries :
           /\ given' = args
           /\ sys' = System(args, job, d[1], d[2])
           /\ hist' = [prefilter |-> PreFilter(args, job), job |-> job,
                       xrs |-> d[1], xrxn |-> d[2]]
  /\ pc' = "built"
  /\ UNCHANGED <<sys2, ret>>

\* the arguments of a rebuild: the first registry's collections, enumeration off
RebuildArgs(s, args) ==
  [args EXCEPT !.complexes = complexes(s),
               !.restingsets = restingsets(s),
               !.detailed_reactions = detailed_reactions(s),
               !.condensed_reactions = condensed_reactions(s),
               !.enumeration = FALSE]

\* System(sys.complexes, sys.restingsets, sys.detailed_reactions,
\*        sys.condensed_reactions, enumeration = False, <same parameters>),
\* with make_stats discovering what it discovered for the first registry
Rebuild ==
  /\ pc = "built"
  /\ sys2' = System(RebuildArgs(sys, given), NoEnumJob,
                    DOMAIN sys.rs_to_stats, DOMAIN sys.rxn_to_stats)
  /\ pc' = "rebuilt"
  /\ UNCHANGED <<given, sys, hist, ret>>

Next == SystemInit \/ Rebuild

Spec == Init /\ [][Next]_vars

(***************************************************************************)
(* The query interface (kinda.py 158-252).  A returned Python list is      *)
(* modelled by the set of its elements; its order is arbitrary, so the     *)
(* first element of a list is any element.  An argument record says, for   *)
(* a keyword with a default of interest, whether the caller passed it.     *)
(***************************************************************************)
\* the first stage of get_reactions: the base list chosen by spurious
\* variant for C5: the two branches on spurious exchanged
ReactionBaseSwapped(s, spurious) ==
  IF spurious = Some(TRUE) THEN s.condensed_reactions
  ELSE IF spurious = Some(FALSE) THEN s.spurious_condensed_reactions
  ELSE s.spurious_condensed_reactions \cup s.condensed_reactions

ReactionBase(s, spurious) ==
  IF spurious = Some(TRUE) THEN s.spurious_condensed_reactions
  ELSE IF spurious = Some(FALSE) THEN s.condensed_reactions
  ELSE s.spurious_condensed_reactions \cup s.condensed_reactions

\* the lambda of both unproductive filters
IsUnproductive(x) == has_reactants(x, Products(x)) /\ has_products(x, Reactants(x))

\* the second stage: the unproductive filter
UnproductiveFilter(rxns, unproductive) ==
  IF unproductive = Some(TRUE) THEN {x \in rxns : IsUnproductive(x)}
  ELSE IF unproductive = Some(FALSE) THEN {x \in rxns : ~IsUnproductive(x)}
  ELSE rxns

\* the third stage: the arity filter
ArityFilter(rxns, arity) ==
  IF arity # None THEN {x \in rxns : Some(Len(Reactants(x))) = arity} ELSE rxns

\* System.get_reactions with every argument given
get_reactions(s, reactants, products, arity, unproductive, spurious) ==
  LET rxns == ArityFilter(UnproductiveFilter(ReactionBase(s, spurious), unproductive), arity)
  IN  {x \in rxns : has_reactants(x, reactants) /\ has_products(x, products)}

\* the default arity of get_reactions
DefaultArity == Some(2)

\* System.get_reactions called with keywords a
get_reactions_kw(s, a) ==
  get_reactions(s, a.reactants, a.products,
                IF a.arity_given THEN a.arity ELSE DefaultArity,
                a.unproductive, a.spurious)

\* the outcomes of a singular accessor on the list its plural form returned
\* variant for C8: several matches are not reported
SingularSilent(list) ==
  IF list = {} THEN {[val |-> None, report |-> "ERROR"]}
  ELSE {[val |-> Some(x), report |-> "none"] : x \in list}

Singular(list) ==
  IF list = {} THEN {[val |-> None, report |-> "ERROR"]}
  ELSE {[val |-> Some(x), report |-> IF Cardinality(list) > 1 THEN "WARNING" ELSE "none"] :
          x \in list}

\* System.get_reaction(**kwargs)
get_reaction(s, a) == Singular(get_reactions_kw(s, a))

\* System.get_restingsets with every argument given
get_restingsets(s, complex, strands, name, complex_name, spurious) ==
  LET rs0 == IF spurious = Some(TRUE) THEN s.spurious_restingsets
             ELSE IF spurious = Some(FALSE) THEN s.restingsets
             ELSE s.restingsets \cup s.spurious_restingsets
      rs1 == IF complex # None THEN {x \in rs0 : complex[1] \in RSComplexes(x)} ELSE rs0
      rs2 == IF strands # <<>>
               THEN {x \in rs1 : \A i \in DOMAIN strands : strands[i] \in RSStrands(x)}
               ELSE rs1
      rs3 == IF name # None THEN {x \in rs2 : NameOf(x) = name[1]} ELSE rs2
  IN  IF complex_name # None
        THEN {x \in rs3 : complex_name[1] \in {NameOf(c) : c \in RSComplexes(x)}}
        ELSE rs3

\* the default of spurious in get_restingsets
DefaultSpuriousPlural == Some(FALSE)

\* the default of spurious in get_restingset
DefaultSpuriousSingular == Some(FALSE)

\* System.get_restingsets called with keywords a
get_restingsets_kw(s, a) ==
  get_restingsets(s, a.complex, a.strands, a.name, a.complex_name,
                  IF a.spurious_given THEN a.spurious ELSE DefaultSpuriousPlural)

\* System.get_restingset
get_restingset(s, a) ==
  Singular(get_restingsets(s, a.complex, a.strands, a.name, a.complex_name,
                           IF a.spurious_given THEN a.spurious
                           ELSE DefaultSpuriousSingular))

\* System.get_complexes
get_complexes(s, name) ==
  IF name # None THEN {x \in s.complexes : NameOf(x) = name[1]} ELSE s.complexes

\* System.get_complex
get_complex(s, name) == Singular(get_complexes(s, name))

\* System.get_stats: the record, or a report and no record
\* variant for C7: only the reaction mapping is consulted
get_statsReactionsOnly(s, obj) ==
  IF obj \in DOMAIN s.rxn_to_stats
    THEN [val |-> Some(s.rxn_to_stats[obj]), report |-> "none"]
    ELSE [val |-> None, report |-> "not found"]

get_stats(s, obj) ==
  IF obj \in DOMAIN s.rxn_to_stats
    THEN [val |-> Some(s.rxn_to_stats[obj]), report |-> "none"]
  ELSE IF obj \in DOMAIN s.rs_to_stats
    THEN [val |-> Some(s.rs_to_stats[obj]), report |-> "none"]
  ELSE [val |-> None, report |-> "not found"]

(***************************************************************************)
(* What the caller may ask.                                                *)
(***************************************************************************)
Tri == {None, Some(TRUE), Some(FALSE)}

ReactionArgs ==
  { a \in [reactants : {<<>>, <<"R1", "R2">>},
           products : {<<>>, <<"R3">>},
           arity_given : BOOLEAN,
           arity : {None, Some(1)},
           unproductive : Tri,
           spurious : Tri] :
      /\ ~a.arity_given => a.arity = None
      /\ a.reactants = <<>> \/ a.products = <<>> }

RestingSetArgs ==
  { a \in [complex : {None, Some("c4")},
           strands : {<<>>, <<"s1">>},
           name : {None, Some("B")},
           complex_name : {None, Some("cA")},
           spurious_given : BOOLEAN,
           spurious : {None, Some(TRUE)}] :
      ~a.spurious_given => a.spurious = None }

ComplexNames == {None, Some("cA"), Some("cB"), Some("C")}

Entities == Complexes \cup RestingSets \cup DetailedReactions \cup CondensedReactions

(***************************************************************************)
(* write_pil (output.py).  A rate is a fraction num/den of the rate in /M  *)
(* and /s.                                                                 *)
(***************************************************************************)
TimeUnits == {"s", "m", "h"}
MolarityUnits == {"M", "mM", "uM", "nM"}

Raised == [raised |-> TRUE, rate |-> [num |-> 0, den |-> 1]]
Returned(rate) == [raised |-> FALSE, rate |-> rate]

\* write_pil.format_rate_units(rate, arity, molarity, time); arity is a pair
format_rate_units(rate, arity, molarity, time) ==
  IF time \notin TimeUnits THEN Raised
  ELSE
    LET r1 == IF time = "m" THEN [rate EXCEPT !.num = @ * 60]
              ELSE IF time = "h" THEN [rate EXCEPT !.num = @ * 3600]
              ELSE rate
        scale == IF molarity = "mM" THEN 1000
                 ELSE IF molarity = "uM" THEN 1000000
                 ELSE 1000000000
    IN  IF molarity = "M" THEN Returned(r1)
        ELSE IF molarity \in MolarityUnits
          THEN IF arity[1] > 1
                 THEN Returned([r1 EXCEPT !.den = @ * ((arity[1] - 1) * scale)])
                 ELSE Returned(r1)
        ELSE Raised

\* the rates a statistics record reports (get_k1, get_k2 with max_sims = 0)
StatsRate == [num |-> 1, den |-> 1]

\* one pass of the loop over the condensed reactions
PilReaction(s, rxn, molarity, time) ==
  IF get_stats(s, rxn).val = None THEN "AttributeError"
  ELSE IF format_rate_units(StatsRate, <<Len(Reactants(rxn)), 1>>, molarity, time).raised
    THEN "NotImplementedError"
  ELSE IF format_rate_units(StatsRate, <<1, Len(Products(rxn))>>, molarity, time).raised
    THEN "NotImplementedError"
  ELSE "ok"

\* the assert of the depletion table, for one pair of resting sets
PilDepletionPair(s, rms1, rms2) ==
  IF Cardinality(get_reactions(s, <<rms1, rms2>>, <<>>, DefaultArity, Some(TRUE), None)) = 1
    THEN "ok" ELSE "AssertionError"

\* the ways write_pil(KindaSystem, pil, spurious, unproductive, molarity, time)
\* may end: "ok", or the exception that leaves it
write_pil(s, spurious, unproductive, molarity, time) ==
  LET rxns == get_reactions(s, <<>>, <<>>, DefaultArity, unproductive, spurious)
      loop1 == {PilReaction(s, rxn, molarity, time) : rxn \in rxns} \ {"ok"}
      rss == get_restingsets(s, None, <<>>, None, None, spurious)
      loop2 == {"AttributeError" : rms \in {x \in rss : get_stats(s, x).val = None}}
      known == get_restingsets(s, None, <<>>, None, None, Some(FALSE))
      loop3 == IF unproductive = None
                 THEN {"AttributeError" : rms \in {x \in known : get_stats(s, x).val = None}}
                        \cup ({PilDepletionPair(s, p[1], p[2]) : p \in known \X known}
                                \ {"ok"})
                 ELSE {}
  IN  IF loop1 # {} THEN loop1
      ELSE IF loop2 # {} THEN loop2
      ELSE IF loop3 # {} THEN loop3
      ELSE {"ok"}

PilArgs ==
  [spurious : {Some(FALSE), Some(TRUE)}, unproductive : Tri, molarity : {"M", "nM", "L"},
   time : {"s", "h", "d"}]

(***************************************************************************)
(* The registry in use: queries, accessors, the caller's changes to what   *)
(* it was handed, and report writing.                                      *)
(***************************************************************************)
\* list(stored): a new list with the elements of the stored set
\* variant for C9: the stored object itself is handed out
ListAlias(field, stored) == [val |-> stored, shares |-> field]

ListCopy(field, stored) == [val |-> stored, shares |-> "none"]

\* stored.copy(): a new dict with the items of the stored dict
DictCopy(field, stored) == [val |-> stored, shares |-> "none"]

ParamFields == {"kinda_params", "multistrand_params", "nupack_params", "peppercorn_params"}

\* what an operation hands back
Result(op, args, kind, r, report) ==
  [op |-> op, args |-> args, kind |-> kind, val |-> r.val, shares |-> r.shares,
   report |-> report]

Fresh(v) == [val |-> v, shares |-> "none"]

\* a registry after construction; this specification does not follow the
\* constructor's arguments, so given, hist and sys2 keep their blank values
InitQuery ==
  /\ pc = "built"
  /\ \E args \in BoundedArgs :
       \E job \in (IF args.enumeration
                     THEN EnumerateJob(StoreGiven(args).complexes,
                                       StoreGiven(args).detailed_reactions)
                     ELSE {NoEnumJob}) :
         \E d \in Discoveries : sys = System(args, job, d[1], d[2])
  /\ given = NoArgs
  /\ hist = NoHist
  /\ sys2 = NoSystem
  /\ ret = NoRet

Frame == UNCHANGED <<pc, given, hist, sys2>>

\* the caller holds no result of an earlier operation
Idle == pc = "built" /\ ret = NoRet

\* sys.complexes
PropComplexes ==
  /\ Idle
  /\ ret' = Result("complexes", None, "list", ListCopy("complexes", sys.complexes), "none")
  /\ UNCHANGED sys /\ Frame

\* sys.restingsets
PropRestingsets ==
  /\ Idle
  /\ ret' = Result("restingsets", None, "list", Fresh(restingsets(sys)), "none")
  /\ UNCHANGED sys /\ Frame

\* sys.detailed_reactions
PropDetailedReactions ==
  /\ Idle
  /\ ret' = Result("detailed_reactions", None, "list",
                   ListCopy("detailed_reactions", sys.detailed_reactions), "none")
  /\ UNCHANGED sys /\ Frame

\* sys.condensed_reactions
PropCondensedReactions ==
  /\ Idle
  /\ ret' = Result("condensed_reactions", None, "list", Fresh(condensed_reactions(sys)), "none")
  /\ UNCHANGED sys /\ Frame

\* sys.kinda_params, sys.multistrand_params, sys.nupack_params, sys.peppercorn_params
PropParams ==
  /\ Idle
  /\ \E f \in ParamFields :
       ret' = Result(f, None, "dict", DictCopy(f, sys[f]), "none")
  /\ UNCHANGED sys /\ Frame

\* sys.initialization_params
PropInitializationParams ==
  /\ Idle
  /\ ret' = Result("initialization_params", None, "dict",
                   Fresh([f \in ParamFields |-> DictCopy(f, sys[f]).val]), "none")
  /\ UNCHANGED sys /\ Frame

GetReactions ==
  /\ Idle
  /\ \E a \in ReactionArgs :
       ret' = Result("get_reactions", a, "list", Fresh(get_reactions_kw(sys, a)), "none")
  /\ UNCHANGED sys /\ Frame

GetReaction ==
  /\ Idle
  /\ \E a \in ReactionArgs : \E r \in get_reaction(sys, a) :
       ret' = Result("get_reaction", a, "value", Fresh(r.val), r.report)
  /\ UNCHANGED sys /\ Frame

GetRestingsets ==
  /\ Idle
  /\ \E a \in RestingSetArgs :
       ret' = Result("get_restingsets", a, "list", Fresh(get_restingsets_kw(sys, a)), "none")
  /\ UNCHANGED sys /\ Frame

GetRestingset ==
  /\ Idle
  /\ \E a \in RestingSetArgs : \E r \in get_restingset(sys, a) :
       ret' = Result("get_restingset", a, "value", Fresh(r.val), r.report)
  /\ UNCHANGED sys /\ Frame

GetComplexes ==
  /\ Idle
  /\ \E n \in ComplexNames :
       ret' = Result("get_complexes", n, "list", Fresh(get_complexes(sys, n)), "none")
  /\ UNCHANGED sys /\ Frame

GetComplex ==
  /\ Idle
  /\ \E n \in ComplexNames : \E r \in get_complex(sys, n) :
       ret' = Result("get_complex", n, "value", Fresh(r.val), r.report)
  /\ UNCHANGED sys /\ Frame

GetStats ==
  /\ Idle
  /\ \E obj \in Entities :
       ret' = Result("get_stats", obj, "value", Fresh(get_stats(sys, obj).val),
                     get_stats(sys, obj).report)
  /\ UNCHANGED sys /\ Frame

\* the caller changes a list or dict it was handed: clears it, or adds to it
CallerMutate ==
  /\ pc = "built"
  /\ ret.op # "none" /\ ret.kind \in {"list", "dict"}
  /\ \E clear \in BOOLEAN :
       LET new == IF ret.kind = "list"
                    THEN (IF clear THEN {} ELSE ret.val \cup {"junk"})
                    ELSE (IF clear THEN EmptyDict
                          ELSE DictMerge(ret.val, [k \in {"junk"} |-> 0]))
       IN  /\ ret' = [op |-> "mutated", args |-> ret.op, kind |-> "value", val |-> new,
                      shares |-> ret.shares, report |-> "none"]
           /\ sys' = IF ret.shares # "none" THEN [sys EXCEPT ![ret.shares] = new] ELSE sys
  /\ Frame

\* the caller drops the result it holds
Discard ==
  /\ pc = "built"
  /\ ret # NoRet
  /\ ret' = NoRet
  /\ UNCHANGED sys /\ Frame

\* write_pil(sys, pil, spurious, unproductive, molarity, time)
WritePil ==
  /\ Idle
  /\ \E a \in PilArgs :
       \E out \in write_pil(sys, a.spurious, a.unproductive, a.molarity, a.time) :
         ret' = Result("write_pil", a, "value", Fresh(None), out)
  /\ UNCHANGED sys /\ Frame

NextQuery ==
  \/ PropComplexes \/ PropRestingsets \/ PropDetailedReactions \/ PropCondensedReactions
  \/ PropParams \/ PropInitializationParams
  \/ GetReactions \/ GetReaction \/ GetRestingsets \/ GetRestingset
  \/ GetComplexes \/ GetComplex \/ GetStats
  \/ CallerMutate \/ Discard \/ WritePil

SpecQuery == InitQuery /\ [][NextQuery]_vars

(***************************************************************************)
(* Properties of construction.                                             *)
(***************************************************************************)
Built == pc # "new"

\* C1: after construction the known and the spurious resting sets are
\* disjoint and together are exactly the keys of the resting-set statistics
\* mapping; likewise the known and spurious condensed reactions and the keys
\* of the reaction statistics mapping.
PartitionOf(s) ==
  /\ s.restingsets \cap s.spurious_restingsets = {}
  /\ s.restingsets \cup s.spurious_restingsets = DOMAIN s.rs_to_stats
  /\ s.condensed_reactions \cap s.spurious_condensed_reactions = {}
  /\ s.condensed_reactions \cup s.spurious_condensed_reactions = DOMAIN s.rxn_to_stats

C1_Partition == Built => PartitionOf(sys)

C1_Witness ==
  /\ pc = "built"
  /\ sys.restingsets # {} /\ sys.spurious_restingsets # {}
  /\ sys.condensed_reactions # {} /\ sys.spurious_condensed_reactions # {}

\* C2 (as claimed): every complex of any resting set, known or spurious, and
\* every participant of any detailed reaction is in the complex set; every
\* participant of any condensed reaction, known or spurious, is a known or
\* spurious resting set.
C2_ClosureAllRestingSets ==
  Built =>
    /\ \A rs \in restingsets(sys) : RSComplexes(rs) \subseteq sys.complexes
    /\ \A rxn \in sys.detailed_reactions : Participants(rxn) \subseteq sys.complexes
    /\ \A rxn \in condensed_reactions(sys) : Participants(rxn) \subseteq restingsets(sys)

\* C2 (amended): the same, with the complexes of the known resting sets only.
C2_Closure ==
  Built =>
    /\ \A rs \in sys.restingsets : RSComplexes(rs) \subseteq sys.complexes
    /\ \A rxn \in sys.detailed_reactions : Participants(rxn) \subseteq sys.complexes
    /\ \A rxn \in condensed_reactions(sys) : Participants(rxn) \subseteq restingsets(sys)

C2_Witness ==
  /\ pc = "built"
  /\ ~given.enumeration
  /\ given.complexes = {}
  /\ sys.restingsets # {} /\ sys.spurious_restingsets # {}
  /\ sys.condensed_reactions # {} /\ sys.spurious_condensed_reactions # {}

C4_UnimolecularFilter ==
  Built =>
    /\ sys.condensed_reactions =
         IF sys.kinda_params["enable_unimolecular_reactions"]
           THEN hist.prefilter.condensed_reactions
           ELSE {rxn \in hist.prefilter.condensed_reactions : Len(Reactants(rxn)) = 2}
    /\ ~sys.kinda_params["enable_unimolecular_reactions"] =>
         \A rxn \in sys.condensed_reactions : Len(Reactants(rxn)) = 2
    /\ sys.complexes = hist.prefilter.complexes
    /\ sys.restingsets = hist.prefilter.restingsets
    /\ sys.detailed_reactions = hist.prefilter.detailed_reactions
    /\ sys.spurious_condensed_reactions = (DOMAIN sys.rxn_to_stats) \ sys.condensed_reactions

C4_Witness ==
  /\ pc = "built"
  /\ ~sys.kinda_params["enable_unimolecular_reactions"]
  /\ \E rxn \in hist.prefilter.condensed_reactions : Len(Reactants(rxn)) = 1
  /\ \E rxn \in hist.prefilter.condensed_reactions : Len(Reactants(rxn)) = 2
  /\ sys.condensed_reactions # {}

C5_GetReactions ==
  (pc = "built" /\ ret.op = "get_reactions") =>
    LET a == ret.args
        arity == IF a.arity_given THEN a.arity ELSE Some(2)
        base == IF a.spurious = Some(TRUE) THEN sys.spurious_condensed_reactions
                ELSE IF a.spurious = Some(FALSE) THEN sys.condensed_reactions
                ELSE sys.condensed_reactions \cup sys.spurious_condensed_reactions
        unprod(r) == /\ Range(Reactants(r)) \subseteq Range(Products(r))
                     /\ Range(Products(r)) \subseteq Range(Reactants(r))
    IN  /\ ret.val =
             {r \in base :
                /\ a.unproductive = None \/ a.unproductive = Some(unprod(r))
                /\ arity = None \/ Len(Reactants(r)) = arity[1]
                /\ Range(a.reactants) \subseteq Range(Reactants(r))
                /\ Range(a.products) \subseteq Range(Products(r))}
        /\ "X2" \in ret.val => a.unproductive # Some(FALSE)
        /\ "X4" \in ret.val => a.unproductive # Some(TRUE)
        /\ (/\ sys.condensed_reactions = {"X1"}
            /\ sys.spurious_condensed_reactions = {}
            /\ a.reactants = <<>> /\ a.products = <<>>
            /\ a.unproductive = Some(FALSE) /\ a.spurious = None) =>
             /\ ~a.arity_given => ret.val = {"X1"}
             /\ a.arity = Some(1) => ret.val = {}

C5_Witness ==
  /\ pc = "built" /\ ret.op = "get_reactions"
  /\ sys.complexes = {"c1", "c2", "c3"} /\ sys.restingsets = {"R1", "R2"}
  /\ sys.condensed_reactions = {"X1"} /\ sys.spurious_condensed_reactions = {}
  /\ ret.args.reactants = <<>> /\ ret.args.products = <<>>
  /\ ~ret.args.arity_given /\ ret.args.unproductive = Some(FALSE)
  /\ ret.args.spurious = None
  /\ ret.val = {"X1"}

\* C7: for a resting set or condensed reaction of the registry, known or
\* spurious, get_stats returns the record make_stats made for it; for
\* anything else it reports not-found and returns no record.
C7_GetStats ==
  (pc = "built" /\ ret.op = "get_stats") =>
    LET e == ret.args
    IN  /\ e \in restingsets(sys) \cup condensed_reactions(sys) =>
             /\ ret.val # None
             /\ ret.val[1].of = e
             /\ ret.report = "none"
        /\ e \notin restingsets(sys) \cup condensed_reactions(sys) =>
             /\ ret.val = None
             /\ ret.report = "not found"

C7_Witness ==
  /\ pc = "built" /\ ret.op = "get_stats"
  /\ ret.args = "R3" /\ "R3" \in sys.spurious_restingsets
  /\ sys.restingsets # {}
  /\ ret.val # None

\* C8: a singular accessor returns nothing and reports an error when its
\* plural form matches nothing, returns the match when there is one, and
\* reports a warning and returns one of the matches when there are several.
SingularAgrees(plural) ==
  /\ plural = {} => (ret.val = None /\ ret.report = "ERROR")
  /\ Cardinality(plural) = 1 => (ret.val # None /\ {ret.val[1]} = plural /\ ret.report = "none")
  /\ Cardinality(plural) > 1 =>
       (ret.val # None /\ ret.val[1] \in plural /\ ret.report = "WARNING")

C8_Singular ==
  pc = "built" =>
    /\ ret.op = "get_reaction" => SingularAgrees(get_reactions_kw(sys, ret.args))
    /\ ret.op = "get_restingset" => SingularAgrees(get_restingsets_kw(sys, ret.args))
    /\ ret.op = "get_complex" => SingularAgrees(get_complexes(sys, ret.args))

C8_Witness ==
  /\ pc = "built" /\ ret.op = "get_restingset"
  /\ ret.report = "WARNING"
  /\ Cardinality(get_restingsets_kw(sys, ret.args)) = 2

\* C9: no query, accessor or lookup, and no change the caller makes to a list
\* or dict it was handed, changes the registry's sets, the key sets of its
\* statistics mappings or its parameter dictionaries.
RegistryView(s) ==
  <<s.complexes, s.restingsets, s.spurious_restingsets, s.detailed_reactions,
    s.condensed_reactions, s.spurious_condensed_reactions,
    DOMAIN s.rs_to_stats, DOMAIN s.rxn_to_stats,
    s.kinda_params, s.peppercorn_params, s.multistrand_params, s.nupack_params>>

C9_QueriesReadOnly == [][RegistryView(sys)' = RegistryView(sys)]_vars

C9_Witness ==
  /\ pc = "built" /\ ret.op = "mutated"
  /\ ret.args = "complexes" /\ ret.val = {}
  /\ sys.complexes # {}

\* C10: write_pil with a time unit outside s, m, h or a molarity unit outside
\* M, mM, uM, nM ends in NotImplementedError, whatever the registry holds and
\* whatever spurious and unproductive select.
C10_UnsupportedUnitRaises ==
  (pc = "built" /\ ret.op = "write_pil"
     /\ (ret.args.time \notin TimeUnits \/ ret.args.molarity \notin MolarityUnits)) =>
    ret.report = "NotImplementedError"

====
